---- MODULE Spec2Model ----
(***************************************************************************)
(* FlashManager (src/main/flash_manager.cpp): the buffered, sector-aware   *)
(* flash writer, driven against a flash backend (flash_intf_t) whose every *)
(* operation may fail.  Addresses and sizes are scaled down: the page      *)
(* buffer holds PageBufferSize bytes and an erase unit SectorSize bytes.   *)
(***************************************************************************)
EXTENDS Integers, Sequences, FiniteSets, TLC

\* ---------------------------------------------------------------- bounds
NumSectors == 2        \* erase units of the modelled flash device
MaxSize == 2           \* longest data block handed to one write call
MaxWrites == 1         \* write calls made in state Open, in one run of Spec
MaxOps == 4            \* FlashManager calls in one run
NumCallers == 2        \* tasks that call programmer_put_cmd
MaxSubmits == 3        \* programmer_put_cmd calls in one run
MaxFlashAddr == 1      \* largest "flash_addr" of a command

\* ------------------------------------------------------ program constants
PageBufferSize == 2    \* sizeof(_page_buffer)
SectorSize == 4        \* what erase_sector_size(addr) reports
MinProgSize == 1       \* what program_page_min_size(addr) reports
Percent == 100         \* the progress of a finished image
UINT32_WRAP == 1073741824  \* modulus of the uint32_t arithmetic (scaled word)
FF == 255              \* 0xFF, the erased-flash value
STALE == FF + 1        \* a flash cell never erased, or programmed over other data

FlashSize == NumSectors * SectorSize

ERROR_SUCCESS == "ERROR_SUCCESS"
ERROR_INTERNAL == "ERROR_INTERNAL"
ERROR_INIT == "ERROR_INIT"
ERROR_UNINIT == "ERROR_UNINIT"
ERROR_WRITE == "ERROR_WRITE"
ERROR_ERASE_SECTOR == "ERROR_ERASE_SECTOR"
ERROR_ALGO_SET == "ERROR_ALGO_SET"
CRASH == "CRASH"

FLASH_STATE_CLOSED == "FLASH_STATE_CLOSED"
FLASH_STATE_OPEN == "FLASH_STATE_OPEN"
FLASH_STATE_ERROR == "FLASH_STATE_ERROR"

ROUND_DOWN(value, boundary) == value - (value % boundary)

U32(x) == x % UINT32_WRAP

Min(a, b) == IF a < b THEN a ELSE b

\* ------------------------------------------------------- flash_intf_t
MandatoryOps ==
  {"init", "uninit", "program_page", "erase_sector", "erase_chip",
   "program_page_min_size", "erase_sector_size", "flash_busy"}

AllOps == MandatoryOps \cup {"flash_algo_set"}

NullIntf == [null |-> TRUE, ops |-> {}]

\* the interfaces a caller hands to init: a null pointer, a complete table with
\* and without the optional hook, and a table with one mandatory entry unbound
Interfaces ==
  {NullIntf, [null |-> FALSE, ops |-> AllOps], [null |-> FALSE, ops |-> MandatoryOps]}
  \cup {[null |-> FALSE, ops |-> AllOps \ {m}] : m \in MandatoryOps}

\* init reads its argument in state Closed alone: in the other states one table
\* stands for all of them
InitArgs(flash_state) ==
  IF flash_state = "FLASH_STATE_CLOSED" THEN Interfaces
  ELSE {[null |-> FALSE, ops |-> AllOps]}

flash_intf_valid(flash_intf) ==
  IF flash_intf.null THEN FALSE
  ELSE IF "uninit" \notin flash_intf.ops THEN FALSE
  ELSE IF "program_page" \notin flash_intf.ops THEN FALSE
  ELSE IF "erase_sector" \notin flash_intf.ops THEN FALSE
  ELSE IF "erase_chip" \notin flash_intf.ops THEN FALSE
  ELSE IF "program_page_min_size" \notin flash_intf.ops THEN FALSE
  ELSE IF "erase_sector_size" \notin flash_intf.ops THEN FALSE
  ELSE IF "flash_busy" \notin flash_intf.ops THEN FALSE
  ELSE TRUE

\* ------------------------------------------------------------ state
VARIABLES
  fm,        \* the FlashManager object: its fields, named as in the source
  flash,     \* the backend's flash cells
  calls,     \* the backend operations invoked since the last accepted init
  pend,      \* <<address, byte>> pairs handed to memcpy since the last program_page
  written,   \* address -> byte accepted by the successful writes of this session
  overlap,   \* two writes of this session addressed the same byte
  lastOp,    \* the last FlashManager call: its arguments, what it returned, and
             \* the object, the pending bytes and the call log it started from
  prevOp,    \* the FlashManager call before the last one
  crashed,   \* the firmware trapped
  nOps,      \* FlashManager calls made so far
  nWrite     \* write calls made in state Open so far

\* s_programmer and the tasks around it (src/main/programmer.cpp)
VARIABLES
  busy,      \* s_programmer.busy
  cmd_ret,   \* s_programmer.cmd_ret
  progress,  \* what programmer_get_progress returns
  cmd_buf,   \* the messages held by s_programmer.cmd_buf
  sync_sig,  \* the binary semaphore s_programmer.sync_sig: 0 or 1
  task,      \* programmer_task: where it stands and the command it holds
  caller,    \* the tasks calling programmer_put_cmd: where each stands, its
             \* command and what its last call returned
  plog,      \* what the worker did for the accepted commands, in order: busy set,
             \* algorithm load, image programming, busy cleared
  verdict,   \* the outcome of the worker's validation, per submitted command
  nSubmit    \* programmer_put_cmd calls made so far

fvars == <<fm, flash, calls, pend, written, overlap, lastOp, prevOp, crashed, nOps, nWrite>>

pvars == <<busy, cmd_ret, progress, cmd_buf, sync_sig, task, caller, plog, verdict, nSubmit>>

vars == <<fvars, pvars>>

Erased == [i \in 1..PageBufferSize |-> FF]

\* the object as the constructor leaves it
FlashManager ==
  [flash_intf |-> NullIntf,
   flash_state |-> FLASH_STATE_CLOSED,
   current_sector_valid |-> FALSE,
   last_packet_addr |-> 0,
   current_write_block_addr |-> 0,
   current_write_block_size |-> 0,
   current_sector_addr |-> 0,
   current_sector_size |-> 0,
   page_buf_empty |-> TRUE,
   page_buffer |-> Erased]

\* ------------------------------------------------------------ backend
NoCall == [op |-> "none", addr |-> 0, data |-> <<>>]

\* what one bit-clearing program operation leaves in a cell
ProgramCell(cell, byte) ==
  IF byte = FF THEN cell
  ELSE IF cell = FF THEN byte
  ELSE IF cell = byte THEN cell
  ELSE STALE

ProgramCells(cells, addr, data) ==
  [a \in DOMAIN cells |->
     IF a >= addr /\ a < addr + Len(data)
     THEN ProgramCell(cells[a], data[a - addr + 1])
     ELSE cells[a]]

EraseCells(cells, addr) ==
  [a \in DOMAIN cells |-> IF a >= addr /\ a < addr + SectorSize THEN FF ELSE cells[a]]

\* An execution context x threads one FlashManager call through the backend:
\* x.n counts the backend operations invoked so far by this call and x.fail is
\* the set of their ordinals that the backend fails.
Fails(x) == (x.n + 1) \in x.fail

Invoke(x, op, addr, data) ==
  [x EXCEPT !.calls = Append(@, [op |-> op, addr |-> addr, data |-> data]),
            !.n = @ + 1]

program_page(x, addr, data) ==
  IF Fails(x)
  THEN [Invoke(x, "program_page", addr, data) EXCEPT
          !.status = ERROR_WRITE, !.failed = "program_page"]
  ELSE [Invoke(x, "program_page", addr, data) EXCEPT
          !.status = ERROR_SUCCESS, !.flash = ProgramCells(@, addr, data)]

erase_sector(x, addr) ==
  IF Fails(x)
  THEN [Invoke(x, "erase_sector", addr, <<>>) EXCEPT
          !.status = ERROR_ERASE_SECTOR, !.failed = "erase_sector"]
  ELSE [Invoke(x, "erase_sector", addr, <<>>) EXCEPT
          !.status = ERROR_SUCCESS, !.flash = EraseCells(@, addr)]

flash_algo_set(x, addr) ==
  IF Fails(x)
  THEN [Invoke(x, "flash_algo_set", addr, <<>>) EXCEPT
          !.status = ERROR_ALGO_SET, !.failed = "flash_algo_set"]
  ELSE [Invoke(x, "flash_algo_set", addr, <<>>) EXCEPT !.status = ERROR_SUCCESS]

\* the result of a backend uninit is used by FlashManager::uninit alone
backend_uninit(x) ==
  [Invoke(x, "uninit", 0, <<>>) EXCEPT
     !.ustatus = IF Fails(x) THEN ERROR_UNINIT ELSE ERROR_SUCCESS]

\* ------------------------------------------------- undefined behaviour
\* memcpy past the end of _page_buffer: the bytes land in whatever follows the
\* buffer.  Either no field of the object is hit, or one of them is overwritten.
NoClobber == [field |-> "none", val |-> 0]

Clobbers ==
  {NoClobber}
  \cup {[field |-> f, val |-> v] :
          f \in {"last_packet_addr", "current_write_block_addr", "current_sector_addr"},
          v \in 0..FlashSize}
  \cup {[field |-> "current_sector_valid", val |-> 0]}
  \cup {[field |-> "flash_state", val |-> v] : v \in {0, 2}}

Clobber(x) ==
  LET c == x.clob
  IN CASE c.field = "last_packet_addr" -> [x EXCEPT !.fm.last_packet_addr = c.val]
       [] c.field = "current_write_block_addr" ->
            [x EXCEPT !.fm.current_write_block_addr = c.val]
       [] c.field = "current_sector_addr" -> [x EXCEPT !.fm.current_sector_addr = c.val]
       [] c.field = "current_sector_valid" -> [x EXCEPT !.fm.current_sector_valid = FALSE]
       [] c.field = "flash_state" ->
            [x EXCEPT !.fm.flash_state =
               IF c.val = 0 THEN FLASH_STATE_CLOSED ELSE FLASH_STATE_ERROR]
       [] OTHER -> x

\* value % 0: the division traps (TRAP), or it yields some remainder
TRAP == 0 - 1
DivByZero == {TRAP, 0, 1}

\* ------------------------------------------------------- FlashManager
memset_page(buf, size) ==
  [j \in 1..PageBufferSize |-> IF j <= size THEN FF ELSE buf[j]]

\* memcpy(_page_buffer + copy_start_pos, data, copy_size); packet_addr is the
\* flash address of data[1].  MemcpyOffset is where byte i lands.
MemcpyOffset(copy_start_pos, i) == U32(copy_start_pos + i - 1)

MemcpyBuffer(buf, copy_start_pos, data) ==
  [j \in 1..PageBufferSize |->
     IF \E i \in 1..Len(data) : MemcpyOffset(copy_start_pos, i) = j - 1
     THEN data[CHOOSE i \in 1..Len(data) : MemcpyOffset(copy_start_pos, i) = j - 1]
     ELSE buf[j]]

MemcpyOverrun(copy_start_pos, data) ==
  \E i \in 1..Len(data) : MemcpyOffset(copy_start_pos, i) >= PageBufferSize

\* the bytes handed to memcpy and not yet handed to program_page, as pairs
\* <<flash address, byte>>; a later byte for an address replaces the earlier one
Pending(bytes, packet_addr, data) ==
  {p \in bytes : p[1] < packet_addr \/ p[1] >= packet_addr + Len(data)}
  \cup {<<packet_addr + i - 1, data[i]>> : i \in 1..Len(data)}

memcpy_page(x, copy_start_pos, data, packet_addr) ==
  IF MemcpyOverrun(copy_start_pos, data)
  THEN Clobber([x EXCEPT
                  !.fm.page_buffer = MemcpyBuffer(@, copy_start_pos, data),
                  !.pend = Pending(@, packet_addr, data),
                  !.oob = TRUE])
  ELSE [x EXCEPT
          !.fm.page_buffer = MemcpyBuffer(@, copy_start_pos, data),
          !.pend = Pending(@, packet_addr, data)]

\* lines 26-30 of flush_current_block
FlushProgram(x) ==
  IF ~x.fm.page_buf_empty
  THEN [program_page(x, x.fm.current_write_block_addr,
                     SubSeq(x.fm.page_buffer, 1, x.fm.current_write_block_size))
          EXCEPT !.fm.page_buf_empty = TRUE, !.pend = {}]
  ELSE [x EXCEPT !.status = ERROR_SUCCESS]

\* lines 33-34 of flush_current_block
FlushNext(y, addr) ==
  IF y.fm.current_write_block_size = 0
  THEN IF y.divz = TRAP
       THEN [y EXCEPT !.crashed = TRUE, !.status = CRASH]
       ELSE [y EXCEPT !.fm.current_write_block_addr = U32(addr - y.divz)]
  ELSE [y EXCEPT
          !.fm.page_buffer = memset_page(@, y.fm.current_write_block_size),
          !.fm.current_write_block_addr =
             ROUND_DOWN(addr, y.fm.current_write_block_size)]

flush_current_block(x, addr) == FlushNext(FlushProgram(x), addr)

\* lines 45-46 of setup_next_sector: the two size queries and what they report
SizeQueries(x, addr) ==
  Invoke(Invoke(x, "program_page_min_size", addr, <<>>),
         "erase_sector_size", addr, <<>>)

min_prog_size(x) == IF (x.n + 1) \in x.fail THEN 0 ELSE MinProgSize

sector_size(x) == IF (x.n + 2) \in x.fail THEN 0 ELSE SectorSize

\* lines 54-57
SectorVars(y, addr, size) ==
  [y EXCEPT !.fm.current_sector_addr = ROUND_DOWN(addr, size),
            !.fm.current_sector_size = size,
            !.fm.current_write_block_addr = ROUND_DOWN(addr, size),
            !.fm.current_write_block_size = Min(size, PageBufferSize)]

\* lines 60-68
SectorAlgo(y) ==
  IF "flash_algo_set" \in y.fm.flash_intf.ops
  THEN flash_algo_set(y, y.fm.current_sector_addr)
  ELSE [y EXCEPT !.status = ERROR_SUCCESS]

\* lines 72-81
SectorErased(z) ==
  IF z.status # ERROR_SUCCESS
  THEN backend_uninit(z)
  ELSE [z EXCEPT !.fm.page_buffer = memset_page(@, z.fm.current_write_block_size)]

\* lines 63-71
SectorErase(y) ==
  IF y.status # ERROR_SUCCESS
  THEN backend_uninit(y)
  ELSE SectorErased(erase_sector(y, y.fm.current_sector_addr))

setup_next_sector(x, addr) ==
  IF min_prog_size(x) <= 0 \/ sector_size(x) <= 0
  THEN [SizeQueries(x, addr) EXCEPT !.status = ERROR_INTERNAL, !.failed = "size"]
  ELSE SectorErase(SectorAlgo(SectorVars(SizeQueries(x, addr), addr, sector_size(x))))

\* a call through an unbound (null) entry of the table: the firmware traps, or
\* control comes back with some status
NullCall == {CRASH, ERROR_SUCCESS, ERROR_INIT}

\* lines 145-153 of init
InitVars(x, flash_intf) ==
  [x EXCEPT !.fm = [FlashManager EXCEPT !.flash_intf = flash_intf],
            !.calls = <<>>, !.pend = {}, !.written = <<>>, !.overlap = FALSE]

\* lines 156-164 of init
InitFlash(y) ==
  IF "init" \notin y.fm.flash_intf.ops
  THEN IF y.nullcall = CRASH
       THEN [y EXCEPT !.crashed = TRUE, !.status = CRASH]
       ELSE IF y.nullcall # ERROR_SUCCESS
       THEN [y EXCEPT !.status = y.nullcall]
       ELSE [y EXCEPT !.status = ERROR_SUCCESS, !.fm.flash_state = FLASH_STATE_OPEN]
  ELSE IF Fails(y)
  THEN [Invoke(y, "init", 0, <<>>) EXCEPT !.status = ERROR_INIT, !.failed = "init"]
  ELSE [Invoke(y, "init", 0, <<>>) EXCEPT
          !.status = ERROR_SUCCESS, !.fm.flash_state = FLASH_STATE_OPEN]

StateGuardInit(flash_state) == flash_state # FLASH_STATE_CLOSED

init(x, flash_intf) ==
  IF StateGuardInit(x.fm.flash_state)
  THEN [x EXCEPT !.status = ERROR_INTERNAL]
  ELSE IF ~flash_intf_valid(flash_intf)
  THEN [x EXCEPT !.status = ERROR_INTERNAL]
  ELSE InitFlash(InitVars(x, flash_intf))

\* every failing return of write: _flash_state = FLASH_STATE_ERROR; return status
WriteFailed(x) == [x EXCEPT !.fm.flash_state = FLASH_STATE_ERROR]

\* lines 247-249
copy_start_pos(x, packet_addr) == U32(packet_addr - x.fm.current_write_block_addr)

page_buf_left(x, packet_addr) ==
  U32(x.fm.current_write_block_size - copy_start_pos(x, packet_addr))

copy_size(x, packet_addr, data) == Min(Len(data), page_buf_left(x, packet_addr))

\* lines 250-251
LoopCopy(x, packet_addr, data, n) ==
  [memcpy_page(x, copy_start_pos(x, packet_addr), SubSeq(data, 1, n), packet_addr)
     EXCEPT !.fm.page_buf_empty = (n = 0)]

\* the while (true) loop of write, lines 214-257; data is what is left to copy
RECURSIVE write_loop(_, _, _)

\* lines 246-256
LoopBody(x, packet_addr, data, n) ==
  write_loop(LoopCopy(x, packet_addr, data, n), packet_addr + n,
             SubSeq(data, n + 1, Len(data)))

\* lines 239-256
LoopSectorDone(x, packet_addr, data) ==
  IF x.status # ERROR_SUCCESS THEN WriteFailed(x)
  ELSE LoopBody(x, packet_addr, data, copy_size(x, packet_addr, data))

\* a loop that never changes sector
LoopFlushDone_SameSector(x, packet_addr, data) ==
  IF x.status # ERROR_SUCCESS THEN WriteFailed(x)
  ELSE IF Len(data) <= 0 THEN [x EXCEPT !.fm.last_packet_addr = packet_addr]
  ELSE LoopSectorDone(x, packet_addr, data)

\* lines 221-237, and the end of write at line 259
LoopFlushDone(x, packet_addr, data) ==
  IF x.status # ERROR_SUCCESS THEN WriteFailed(x)
  ELSE IF Len(data) <= 0 THEN [x EXCEPT !.fm.last_packet_addr = packet_addr]
  ELSE LoopSectorDone(
         IF packet_addr >= x.fm.current_sector_addr + x.fm.current_sector_size
         THEN setup_next_sector(x, packet_addr)
         ELSE x,
         packet_addr, data)

write_loop(x, packet_addr, data) ==
  LoopFlushDone(
    IF packet_addr >= x.fm.current_write_block_addr + x.fm.current_write_block_size
    THEN flush_current_block(x, packet_addr)
    ELSE x,
    packet_addr, data)

\* lines 207-214
WriteSectorDone(x, packet_addr, data) ==
  IF x.status # ERROR_SUCCESS THEN WriteFailed(x)
  ELSE write_loop(x, packet_addr, data)

\* lines 197-206
WriteFlushDone(x, packet_addr, data) ==
  IF x.status # ERROR_SUCCESS THEN WriteFailed(x)
  ELSE WriteSectorDone(
         IF ROUND_DOWN(packet_addr, x.fm.current_sector_size)
              # ROUND_DOWN(x.fm.last_packet_addr, x.fm.current_sector_size)
         THEN setup_next_sector(x, packet_addr)
         ELSE x,
         packet_addr, data)

\* lines 184-196
WriteSetupDone(x, packet_addr, data) ==
  IF x.status # ERROR_SUCCESS THEN WriteFailed(x)
  ELSE WriteFlushDone(
         IF ROUND_DOWN(packet_addr, x.fm.current_write_block_size)
              # ROUND_DOWN(x.fm.last_packet_addr, x.fm.current_write_block_size)
         THEN flush_current_block(x, packet_addr)
         ELSE x,
         packet_addr, data)

\* lines 189-190
FirstSector(x, packet_addr) ==
  IF x.status # ERROR_SUCCESS THEN x
  ELSE [x EXCEPT !.fm.current_sector_valid = TRUE,
                 !.fm.last_packet_addr = packet_addr]

\* a guard that lets a write through in state Error
StateGuardWrite_ClosedOnly(flash_state) == flash_state = FLASH_STATE_CLOSED

StateGuardWrite(flash_state) == flash_state # FLASH_STATE_OPEN

write(x, packet_addr, data) ==
  IF StateGuardWrite(x.fm.flash_state)
  THEN [x EXCEPT !.status = ERROR_INTERNAL]
  ELSE WriteSetupDone(
         IF ~x.fm.current_sector_valid
         THEN FirstSector(setup_next_sector(x, packet_addr), packet_addr)
         ELSE x,
         packet_addr, data)

StateGuardUninit(flash_state) == flash_state = FLASH_STATE_CLOSED

\* a return policy that puts the flush error first
UninitReturn_FlushFirst(flash_write_ret, flash_uninit_ret) ==
  IF flash_write_ret # ERROR_SUCCESS THEN flash_write_ret
  ELSE IF flash_uninit_ret # ERROR_SUCCESS THEN flash_uninit_ret
  ELSE ERROR_SUCCESS

\* the return policy at the end of uninit, lines 296-306
UninitReturn(flash_write_ret, flash_uninit_ret) ==
  IF flash_uninit_ret # ERROR_SUCCESS THEN flash_uninit_ret
  ELSE IF flash_write_ret # ERROR_SUCCESS THEN flash_write_ret
  ELSE ERROR_SUCCESS

\* lines 284-293: the reset of every field
UninitReset(u, flash_write_ret) ==
  [u EXCEPT !.fm = [FlashManager EXCEPT !.flash_intf = u.fm.flash_intf],
            !.status = UninitReturn(flash_write_ret, u.ustatus)]

\* lines 281-306: backend uninit, the reset, the return value
UninitClose(x) ==
  IF x.crashed THEN x ELSE UninitReset(backend_uninit(x), x.status)

uninit(x) ==
  IF StateGuardUninit(x.fm.flash_state)
  THEN [x EXCEPT !.status = ERROR_INTERNAL]
  ELSE UninitClose(IF x.fm.flash_state = FLASH_STATE_OPEN
                   THEN flush_current_block(x, 0)
                   ELSE x)

\* ------------------------------------------------ programmer.cpp: commands
\* A command as programmer_task reads it: whether cJSON_Parse yields a root,
\* the type of the "algorithm" and "program" items, whether the files they
\* name exist, whether the algorithm path ends in ".bin", and the "flash_addr"
\* item: whether it is there as a number, and its value.
HexCmd ==
  [parses |-> TRUE, algorithm |-> "string", program |-> "string",
   algo_exist |-> TRUE, program_exist |-> TRUE, bin |-> FALSE,
   has_addr |-> FALSE, flash_addr |-> 0]

BinCmd(flash_addr) ==
  [HexCmd EXCEPT !.bin = TRUE, !.has_addr = TRUE, !.flash_addr = flash_addr]

NoCmd ==
  [parses |-> FALSE, algorithm |-> "absent", program |-> "absent",
   algo_exist |-> FALSE, program_exist |-> FALSE, bin |-> FALSE,
   has_addr |-> FALSE, flash_addr |-> 0]

Commands ==
  {HexCmd, [HexCmd EXCEPT !.has_addr = TRUE, !.flash_addr = MaxFlashAddr],
   BinCmd(MaxFlashAddr), BinCmd(0), [HexCmd EXCEPT !.bin = TRUE],
   NoCmd,
   [HexCmd EXCEPT !.algorithm = "absent", !.algo_exist = FALSE],
   [HexCmd EXCEPT !.algorithm = "number", !.algo_exist = FALSE],
   [HexCmd EXCEPT !.program = "absent", !.program_exist = FALSE],
   [HexCmd EXCEPT !.program = "number", !.program_exist = FALSE],
   [HexCmd EXCEPT !.algo_exist = FALSE],
   [HexCmd EXCEPT !.program_exist = FALSE]}

\* programmer_file_exist(path) for the two path buffers of programmer_task
programmer_file_exist(cmd, path) ==
  IF path = "algo_path" THEN cmd.algo_exist ELSE cmd.program_exist

\* programmer_suffix_check(algo_path, ".bin")
programmer_suffix_check(cmd) == cmd.bin

\* the condition of line 93-94
Malformed(cmd) ==
  \/ ~cmd.parses
  \/ cmd.algorithm = "absent"
  \/ cmd.program = "absent"
  \/ cmd.algorithm # "string"
  \/ cmd.program # "string"
  \/ ~programmer_file_exist(cmd, "algo_path")
  \/ ~programmer_file_exist(cmd, "algo_path")

\* lines 108-120: a ".bin" algorithm without a numeric flash_addr
NoFlashAddr(cmd) == programmer_suffix_check(cmd) /\ ~cmd.has_addr

\* flash_addr as the worker holds it at line 127: 0 unless lines 110-113 set it
FlashAddr(cmd) ==
  IF programmer_suffix_check(cmd) /\ cmd.has_addr THEN cmd.flash_addr
  ELSE 0

\* line 130: which programmer runs
UsesHex(flash_addr) == flash_addr = 0

\* a test that never sees busy
BusyCheck_Blind(b) == FALSE

\* the test of line 156
BusyCheck(b) == b

\* ------------------------------------------- programmer.cpp: the two sides
Callers == 1..NumCallers

\* programmer_init, lines 146-152: busy false, an empty message buffer, a
\* binary semaphore created empty, the worker at its xMessageBufferReceive
programmer_init ==
  /\ busy = FALSE
  /\ cmd_ret = FALSE
  /\ progress = 0
  /\ cmd_buf = <<>>
  /\ sync_sig = 0
  /\ task = [pc |-> "receive", id |-> 0, cmd |-> NoCmd]
  /\ caller = [c \in Callers |->
                 [pc |-> "idle", id |-> 0, msg |-> NoCmd, ret |-> FALSE,
                  why |-> "none", progress0 |-> 0, follow |-> FALSE]]
  /\ plog = <<>>
  /\ verdict = [i \in 1..MaxSubmits |-> "none"]
  /\ nSubmit = 0

\* line 72: xMessageBufferReceive takes the oldest message
W_Receive ==
  /\ task.pc = "receive"
  /\ cmd_buf # <<>>
  /\ task' = [pc |-> "reset", id |-> Head(cmd_buf).id, cmd |-> Head(cmd_buf).cmd]
  /\ cmd_buf' = Tail(cmd_buf)
  /\ UNCHANGED <<busy, cmd_ret, progress, sync_sig, caller, plog, verdict, nSubmit>>

\* lines 76-81: parse, then reset_progress()
W_Reset ==
  /\ task.pc = "reset"
  /\ progress' = 0
  /\ task' = [task EXCEPT !.pc = "validate"]
  /\ UNCHANGED <<busy, cmd_ret, cmd_buf, sync_sig, caller, plog, verdict, nSubmit>>

\* lines 93-123: cmd_ret is the outcome of the validation
W_Validate ==
  /\ task.pc = "validate"
  /\ IF Malformed(task.cmd) \/ NoFlashAddr(task.cmd)
     THEN /\ cmd_ret' = FALSE
          /\ verdict' = [verdict EXCEPT ![task.id] = "false"]
          /\ task' = [task EXCEPT !.pc = "give"]
     ELSE /\ cmd_ret' = TRUE
          /\ verdict' = [verdict EXCEPT ![task.id] = "true"]
          /\ task' = [task EXCEPT !.pc = "busy"]
  /\ UNCHANGED <<busy, progress, cmd_buf, sync_sig, caller, plog, nSubmit>>

\* line 124
W_SetBusy ==
  /\ task.pc = "busy"
  /\ busy' = TRUE
  /\ plog' = Append(plog, [op |-> "busy", id |-> task.id, cmd |-> task.cmd,
                           flash_addr |-> 0])
  /\ task' = [task EXCEPT !.pc = "give"]
  /\ UNCHANGED <<cmd_ret, progress, cmd_buf, sync_sig, caller, verdict, nSubmit>>

\* lines 98, 118, 125: xSemaphoreGive on a binary semaphore; a rejected
\* command sends the worker back to line 72
W_Give ==
  /\ task.pc = "give"
  /\ sync_sig' = 1
  /\ task' = [task EXCEPT !.pc = IF cmd_ret THEN "extract" ELSE "receive"]
  /\ UNCHANGED <<busy, cmd_ret, progress, cmd_buf, caller, plog, verdict, nSubmit>>

\* line 127: the algorithm load succeeds or fails
W_Extract ==
  /\ task.pc = "extract"
  /\ plog' = Append(plog, [op |-> "extract", id |-> task.id, cmd |-> task.cmd,
                           flash_addr |-> 0])
  /\ \E ok \in BOOLEAN :
       task' = [task EXCEPT !.pc = IF ok THEN "program" ELSE "clear"]
  /\ UNCHANGED <<busy, cmd_ret, progress, cmd_buf, sync_sig, caller, verdict, nSubmit>>

\* lines 130-133: the image goes through the hex or the binary programmer,
\* which reports its progress
W_Program ==
  /\ task.pc = "program"
  /\ plog' = Append(plog,
                    [op |-> IF UsesHex(FlashAddr(task.cmd)) THEN "programing_hex"
                            ELSE "programming_bin",
                     id |-> task.id, cmd |-> task.cmd,
                     flash_addr |-> FlashAddr(task.cmd)])
  /\ \E p \in {Percent \div 2, Percent} : progress' = p
  /\ task' = [task EXCEPT !.pc = "clear"]
  /\ UNCHANGED <<busy, cmd_ret, cmd_buf, sync_sig, caller, verdict, nSubmit>>

\* line 141, and back to line 72
W_Clear ==
  /\ task.pc = "clear"
  /\ busy' = FALSE
  /\ plog' = Append(plog, [op |-> "clear", id |-> task.id, cmd |-> task.cmd,
                           flash_addr |-> 0])
  /\ task' = [task EXCEPT !.pc = "receive"]
  /\ UNCHANGED <<cmd_ret, progress, cmd_buf, sync_sig, caller, verdict, nSubmit>>

\* a request has ended and the worker waits for the next one with nothing queued
Waiting ==
  /\ task.pc = "receive"
  /\ ~busy
  /\ cmd_buf = <<>>
  /\ \E i \in DOMAIN plog : plog[i].op = "clear"

\* programmer_put_cmd, lines 156-159: the read of busy; the command is one of S
P_Check(c, S) ==
  /\ caller[c].pc = "idle"
  /\ nSubmit < MaxSubmits
  /\ \E cmd \in S :
       caller' = [caller EXCEPT ![c] =
                    IF BusyCheck(busy)
                    THEN [pc |-> "idle", id |-> nSubmit + 1, msg |-> cmd,
                          ret |-> FALSE, why |-> "busy", progress0 |-> progress,
                          follow |-> FALSE]
                    ELSE [pc |-> "send", id |-> nSubmit + 1, msg |-> cmd,
                          ret |-> FALSE, why |-> "none", progress0 |-> progress,
                          follow |-> Waiting]]
  /\ nSubmit' = nSubmit + 1
  /\ UNCHANGED <<busy, cmd_ret, progress, cmd_buf, sync_sig, task, plog, verdict>>

\* line 161: xMessageBufferSend
P_Send(c) ==
  /\ caller[c].pc = "send"
  /\ cmd_buf' = Append(cmd_buf, [id |-> caller[c].id, cmd |-> caller[c].msg])
  /\ caller' = [caller EXCEPT ![c].pc = "take"]
  /\ UNCHANGED <<busy, cmd_ret, progress, sync_sig, task, plog, verdict, nSubmit>>

\* line 162: xSemaphoreTake
P_Take(c) ==
  /\ caller[c].pc = "take"
  /\ sync_sig = 1
  /\ sync_sig' = 0
  /\ caller' = [caller EXCEPT ![c].pc = "return"]
  /\ UNCHANGED <<busy, cmd_ret, progress, cmd_buf, task, plog, verdict, nSubmit>>

\* line 164: return s_programmer.cmd_ret
P_Return(c) ==
  /\ caller[c].pc = "return"
  /\ caller' = [caller EXCEPT ![c].pc = "idle", ![c].ret = cmd_ret,
                              ![c].why = "handshake"]
  /\ UNCHANGED <<busy, cmd_ret, progress, cmd_buf, sync_sig, task, plog, verdict, nSubmit>>

programmer_task ==
  \/ W_Receive \/ W_Reset \/ W_Validate \/ W_SetBusy
  \/ W_Give \/ W_Extract \/ W_Program \/ W_Clear

programmer_put_cmd(c, S) == P_Check(c, S) \/ P_Send(c) \/ P_Take(c) \/ P_Return(c)

\* ---------------------------------------------------------- the system
\* data block of the k-th write call: byte i carries the tag 10 * k + i
Data(k, size) == [i \in 1..size |-> 10 * k + i]

Ctx(fail, clob, divz, nullcall) ==
  [fm |-> fm, flash |-> flash, calls |-> calls, pend |-> pend,
   written |-> written, overlap |-> overlap, crashed |-> FALSE,
   n |-> 0, fail |-> fail, status |-> ERROR_SUCCESS, ustatus |-> ERROR_SUCCESS,
   failed |-> "none", oob |-> FALSE,
   clob |-> clob, divz |-> divz, nullcall |-> nullcall]

NoOp ==
  [op |-> "none", addr |-> 0, size |-> 0, data |-> <<>>, intf |-> NullIntf,
   ret |-> ERROR_SUCCESS, failed |-> "none", failedOps |-> {}, oob |-> FALSE,
   n |-> 0, pre |-> FlashManager, prepend |-> {}, ncalls |-> 0]

\* what is kept of the call before the last one
Earlier(o) ==
  [op |-> o.op, addr |-> o.addr, size |-> o.size, data |-> o.data,
   ret |-> o.ret, n |-> o.n]

\* the backend operations that returned an error during the call
FailedOps(r) ==
  {r.calls[Len(r.calls) - r.n + i].op : i \in r.fail \cap (1..r.n)}

Commit(r, op, addr, data, intf) ==
  /\ fm' = r.fm
  /\ flash' = r.flash
  /\ calls' = r.calls
  /\ pend' = r.pend
  /\ written' = r.written
  /\ overlap' = r.overlap
  /\ crashed' = r.crashed
  /\ lastOp' = [op |-> op, addr |-> addr, size |-> Len(data), data |-> data,
                intf |-> intf,
                ret |-> r.status, failed |-> r.failed, failedOps |-> FailedOps(r),
                oob |-> r.oob, n |-> r.n,
                pre |-> fm, prepend |-> pend, ncalls |-> Len(calls)]
  /\ prevOp' = Earlier(lastOp)
  /\ UNCHANGED pvars

Init ==
  /\ fm = FlashManager
  /\ flash = [a \in 0..(FlashSize - 1) |-> STALE]
  /\ calls = <<>>
  /\ pend = {}
  /\ written = <<>>
  /\ overlap = FALSE
  /\ crashed = FALSE
  /\ lastOp = NoOp
  /\ prevOp = Earlier(NoOp)
  /\ nOps = 0 /\ nWrite = 0
  /\ programmer_init

DoInit ==
  /\ ~crashed
  /\ nOps < MaxOps
  /\ \E intf \in InitArgs(fm.flash_state) :
       LET r0 == init(Ctx({}, NoClobber, 0, ERROR_SUCCESS), intf)
       IN \E f \in SUBSET (1..r0.n),
             nc \in (IF r0.n = 0 /\ r0.status = ERROR_SUCCESS THEN NullCall
                     ELSE {ERROR_SUCCESS}) :
            Commit(init(Ctx(f, NoClobber, 0, nc), intf), "init", 0, <<>>, intf)
  /\ nOps' = nOps + 1
  /\ UNCHANGED nWrite

\* the bookkeeping of a write call that returned success
Accepted(r, packet_addr, data) ==
  IF r.status # ERROR_SUCCESS THEN r
  ELSE LET range == {packet_addr + i - 1 : i \in 1..Len(data)}
       IN [r EXCEPT
             !.overlap = @ \/ (range \cap DOMAIN r.written # {}),
             !.written = [a \in DOMAIN r.written \cup range |->
                            IF a \in range THEN data[a - packet_addr + 1]
                            ELSE r.written[a]]]

\* write reads its arguments in state Open alone: in the other states one pair
\* stands for all of them
WriteArgs(flash_state) ==
  IF flash_state = FLASH_STATE_OPEN
  THEN {<<a, n>> \in (0..(FlashSize - 1)) \X (0..MaxSize) : a + n <= FlashSize}
  ELSE {<<0, 1>>}

\* one call of write; limit bounds the calls made in state Open
WriteCall(limit) ==
  /\ ~crashed
  /\ nOps < MaxOps
  /\ fm.flash_state # FLASH_STATE_OPEN \/ nWrite < limit
  /\ \E packet_addr \in 0..(FlashSize - 1), size \in 0..MaxSize :
       /\ <<packet_addr, size>> \in WriteArgs(fm.flash_state)
       /\ LET data == Data(nWrite + 1, size)
              r0 == write(Ctx({}, NoClobber, 0, CRASH), packet_addr, data)
          IN \E c \in (IF r0.oob THEN Clobbers ELSE {NoClobber}) :
               LET r1 == write(Ctx({}, c, 0, CRASH), packet_addr, data)
               IN \E k \in 0..r1.n :
                    LET r == write(Ctx(IF k = 0 THEN {} ELSE {k}, c, 0, CRASH),
                                   packet_addr, data)
                    IN Commit(Accepted(r, packet_addr, data), "write",
                              packet_addr, data, fm.flash_intf)
  /\ nOps' = nOps + 1
  /\ nWrite' = IF fm.flash_state # FLASH_STATE_OPEN THEN nWrite ELSE nWrite + 1

DoWrite == WriteCall(MaxWrites)

DoWriteSeq == WriteCall(MaxWrites + 1)

DoUninit ==
  /\ ~crashed
  /\ nOps < MaxOps
  /\ \E d \in DivByZero :
       LET r0 == uninit(Ctx({}, NoClobber, d, CRASH))
       IN \E f \in SUBSET (1..r0.n) :
            Commit(uninit(Ctx(f, NoClobber, d, CRASH)), "uninit", 0, <<>>, fm.flash_intf)
  /\ nOps' = nOps + 1
  /\ UNCHANGED nWrite

Next == DoInit \/ DoWrite \/ DoUninit

Spec == Init /\ [][Next]_vars

\* the same system with one more write call in a run: sequences of writes
NextSeq == DoInit \/ DoWriteSeq \/ DoUninit

SpecSeq == Init /\ [][NextSeq]_vars

\* the orchestrator with several calling tasks; for the handshake one command
\* that the worker accepts and one that it rejects stand for all of them
Handshakes == {HexCmd, NoCmd}

NextProg ==
  \/ programmer_task /\ UNCHANGED fvars
  \/ \E c \in Callers : programmer_put_cmd(c, Handshakes) /\ UNCHANGED fvars

SpecProg == Init /\ [][NextProg]_vars

\* the orchestrator with one calling task and every command
NextOne ==
  \/ programmer_task /\ UNCHANGED fvars
  \/ programmer_put_cmd(1, Commands) /\ UNCHANGED fvars

SpecOne == Init /\ [][NextOne]_vars

\* fair scheduling: the worker and every calling task keep running
FairProg ==
  /\ SpecProg
  /\ WF_vars(programmer_task /\ UNCHANGED fvars)
  /\ \A c \in Callers :
        WF_vars((P_Send(c) \/ P_Take(c) \/ P_Return(c)) /\ UNCHANGED fvars)

\* ------------------------------------------------------------ properties
\* the backend operations invoked by the last FlashManager call
NewCalls == SubSeq(calls, Len(calls) - lastOp.n + 1, Len(calls))

\* the backend operations invoked by the last two FlashManager calls
TwoCalls == SubSeq(calls, Len(calls) - lastOp.n - prevOp.n + 1, Len(calls))

ProgramPages(log) == {i \in DOMAIN log : log[i].op = "program_page"}

EraseSectors(log) == {i \in DOMAIN log : log[i].op = "erase_sector"}

\* call i of the session programs the byte at address a
Programs(log, i, a) ==
  /\ log[i].op = "program_page"
  /\ a >= log[i].addr
  /\ a < log[i].addr + Len(log[i].data)

ErasedBefore(i, a) ==
  \E j \in 1..(i - 1) :
     /\ calls[j].op = "erase_sector"
     /\ calls[j].addr = ROUND_DOWN(a, SectorSize)

SessionSucceeded ==
  /\ lastOp.op = "uninit"
  /\ lastOp.pre.flash_state = FLASH_STATE_OPEN
  /\ lastOp.ret = ERROR_SUCCESS

\* C2: after a session in which every call succeeded and no address was
\* written twice, every byte accepted by a write is in flash at its address
\* once uninit has returned success, whatever the order of the addresses.
C2_NoDataLoss ==
  (SessionSucceeded /\ ~overlap) =>
     \A a \in DOMAIN written : flash[a] = written[a]

\* the page that a flush of window w is to carry: the bytes of the set bytes
\* (pairs <<address, byte>>) at their offsets and 0xFF everywhere else
PageOf(bytes, w, size) ==
  [k \in 1..size |->
     IF \E p \in bytes : p[1] = w + k - 1
     THEN (CHOOSE p \in bytes : p[1] = w + k - 1)[2]
     ELSE FF]

BytesOf(addr, data) == {<<addr + i - 1, data[i]>> : i \in 1..Len(data)}

\* the bytes of the set bytes that lie in window w
InWindow(bytes, w, size) == {p \in bytes : p[1] >= w /\ p[1] < w + size}

\* the byte p is in the page buffer at its offset in the current block window
Buffered(p) ==
  /\ p[1] >= fm.current_write_block_addr
  /\ p[1] < fm.current_write_block_addr + fm.current_write_block_size
  /\ fm.page_buffer[p[1] - fm.current_write_block_addr + 1] = p[2]

\* a call of log has programmed the byte p at its address
Programmed(log, p) ==
  \E i \in DOMAIN log :
     /\ Programs(log, i, p[1])
     /\ log[i].data[p[1] - log[i].addr + 1] = p[2]

\* two successful writes in a row, the first one leaving bytes in a block
\* window that the second one does not address
WindowChanged ==
  /\ lastOp.op = "write" /\ lastOp.ret = ERROR_SUCCESS
  /\ prevOp.op = "write" /\ prevOp.ret = ERROR_SUCCESS
  /\ prevOp.size > 0
  /\ ~overlap
  /\ lastOp.pre.current_write_block_size > 0
  /\ ROUND_DOWN(lastOp.addr, lastOp.pre.current_write_block_size)
       # ROUND_DOWN(prevOp.addr + prevOp.size - 1, lastOp.pre.current_write_block_size)

\* C3: when a successful write has put bytes in block window W and the next
\* successful write addresses another window, then by the time the second
\* write returns the backend has been given exactly one program_page for W, of
\* the block size, with the written bytes at their offsets and 0xFF at every
\* offset never written, and the bytes of the second write are in the page
\* buffer of the new window (or already programmed at their addresses).
C3_FlushOnWindowChange ==
  WindowChanged =>
     LET size == lastOp.pre.current_write_block_size
         W == ROUND_DOWN(prevOp.addr + prevOp.size - 1, size)
         first == InWindow(BytesOf(prevOp.addr, prevOp.data), W, size)
         other == {<<a, written[a]>> : a \in DOMAIN written} \ BytesOf(lastOp.addr, lastOp.data)
         flushes == {i \in ProgramPages(TwoCalls) : TwoCalls[i].addr = W}
     IN /\ Cardinality(flushes) = 1
        /\ \A i \in flushes :
              /\ Len(TwoCalls[i].data) = size
              /\ \A k \in 1..size :
                    /\ <<W + k - 1, TwoCalls[i].data[k]>> \in first
                       \/ ~(\E p \in first : p[1] = W + k - 1)
                    /\ (\E p \in other : p[1] = W + k - 1)
                       \/ TwoCalls[i].data[k] = FF
        /\ \A p \in BytesOf(lastOp.addr, lastOp.data) :
              Buffered(p) \/ Programmed(NewCalls, p)

ErrorOf(op) ==
  CASE op = "program_page" -> ERROR_WRITE
    [] op = "erase_sector" -> ERROR_ERASE_SECTOR
    [] op = "flash_algo_set" -> ERROR_ALGO_SET
    [] OTHER -> ERROR_INTERNAL

\* C5: when program_page, erase_sector, the flash_algo_set hook or a size query
\* fails during a write, the write returns that error (the internal error for a
\* size query), the manager is in state Error and the backend's uninit has been
\* invoked.
C5_WriteFailure ==
  (lastOp.op = "write"
     /\ lastOp.failed \in {"program_page", "erase_sector", "flash_algo_set", "size"}) =>
     /\ lastOp.ret = ErrorOf(lastOp.failed)
     /\ fm.flash_state = FLASH_STATE_ERROR
     /\ \E i \in DOMAIN NewCalls : NewCalls[i].op = "uninit"

\* the last call was turned away by its state guard: internal error, no backend
\* operation, the object, the call log and the pending bytes as they were
Rejected ==
  /\ lastOp.ret = ERROR_INTERNAL
  /\ lastOp.n = 0
  /\ Len(calls) = lastOp.ncalls
  /\ fm = lastOp.pre
  /\ pend = lastOp.prepend

\* C6: init in state Open or Error, write in state Closed or Error and uninit
\* in state Closed return the internal error, invoke no backend operation and
\* leave the state, the buffer and the address bookkeeping unchanged; state
\* Error is left by uninit alone and state Closed by a successful init alone,
\* so after a write failure every write is rejected until uninit and a
\* successful init have been gone through.
C6_LifecycleGuards ==
  /\ (lastOp.op = "init" /\ lastOp.pre.flash_state # FLASH_STATE_CLOSED) => Rejected
  /\ (lastOp.op = "write" /\ lastOp.pre.flash_state # FLASH_STATE_OPEN) => Rejected
  /\ (lastOp.op = "uninit" /\ lastOp.pre.flash_state = FLASH_STATE_CLOSED) => Rejected
  /\ (lastOp.pre.flash_state = FLASH_STATE_ERROR /\ fm.flash_state # FLASH_STATE_ERROR)
       => (lastOp.op = "uninit" /\ fm.flash_state = FLASH_STATE_CLOSED)
  /\ (lastOp.pre.flash_state = FLASH_STATE_CLOSED /\ fm.flash_state # FLASH_STATE_CLOSED)
       => (lastOp.op = "init" /\ lastOp.ret = ERROR_SUCCESS
           /\ fm.flash_state = FLASH_STATE_OPEN)

\* a write was rejected in state Error, the write before it having failed
C6_RejectedAfterFailure ==
  /\ lastOp.op = "write"
  /\ lastOp.pre.flash_state = FLASH_STATE_ERROR
  /\ lastOp.ret = ERROR_INTERNAL
  /\ prevOp.op = "write"
  /\ prevOp.ret \in {ERROR_WRITE, ERROR_ERASE_SECTOR, ERROR_ALGO_SET}

Complete(flash_intf) == ~flash_intf.null /\ MandatoryOps \subseteq flash_intf.ops

\* C7: init in state Closed accepts an interface only if every mandatory
\* operation is bound; given an interface with one of them missing it returns
\* the internal error, stays Closed and calls no backend operation.
C7_InterfaceValidity ==
  (lastOp.op = "init" /\ lastOp.pre.flash_state = FLASH_STATE_CLOSED
     /\ ~Complete(lastOp.intf)) =>
     /\ lastOp.ret = ERROR_INTERNAL
     /\ fm.flash_state = FLASH_STATE_CLOSED
     /\ lastOp.n = 0
     /\ ~crashed

\* C8: uninit in state Open or Error always invokes the backend's uninit,
\* resets the buffer to 0xFF and all the bookkeeping to zero, and leaves the
\* state Closed.
C8_AlwaysTearDown ==
  (lastOp.op = "uninit" /\ lastOp.pre.flash_state # FLASH_STATE_CLOSED) =>
     /\ \E i \in DOMAIN NewCalls : NewCalls[i].op = "uninit"
     /\ fm = [FlashManager EXCEPT !.flash_intf = lastOp.pre.flash_intf]
     /\ ~crashed

\* uninit went through its teardown: it invoked the backend's uninit
TornDown ==
  /\ lastOp.op = "uninit"
  /\ lastOp.pre.flash_state # FLASH_STATE_CLOSED
  /\ \E i \in DOMAIN NewCalls : NewCalls[i].op = "uninit"

\* C9: uninit returns the backend-uninit error when the backend's uninit
\* failed, whether or not the flush failed too; otherwise the program_page
\* error when the flush failed; otherwise success.
C9_UninitReturnPolicy ==
  TornDown =>
     lastOp.ret = IF "uninit" \in lastOp.failedOps THEN ERROR_UNINIT
                  ELSE IF "program_page" \in lastOp.failedOps THEN ERROR_WRITE
                  ELSE ERROR_SUCCESS

\* the flush and the backend's uninit both failed
C9_BothFailed ==
  /\ TornDown
  /\ lastOp.failedOps = {"program_page", "uninit"}
  /\ lastOp.ret = ERROR_UNINIT

\* a session of one write across a sector boundary and a uninit, all successful
SplitWrite ==
  /\ lastOp.op = "uninit" /\ lastOp.ret = ERROR_SUCCESS
  /\ prevOp.op = "write" /\ prevOp.ret = ERROR_SUCCESS
  /\ \A i \in 1..(Len(calls) - lastOp.n - prevOp.n) : calls[i].op = "init"
  /\ prevOp.size > 0
  /\ ROUND_DOWN(prevOp.addr, SectorSize)
       # ROUND_DOWN(prevOp.addr + prevOp.size - 1, SectorSize)

\* C10: a single write whose bytes cross a sector boundary, followed by
\* uninit, issues exactly one erase_sector for each of the two sectors, the
\* lower one first, and exactly two program_page calls, one for the last block
\* of the first sector and one for the first block of the second, each erase
\* coming before the program into its sector; the two pages carry the bytes.
C10_SectorBoundarySplit ==
  SplitWrite =>
     LET second == ROUND_DOWN(prevOp.addr + prevOp.size - 1, SectorSize)
         first == ROUND_DOWN(prevOp.addr, SectorSize)
     IN /\ Cardinality(EraseSectors(calls)) = 2
        /\ Cardinality(ProgramPages(calls)) = 2
        /\ \E e1, e2 \in EraseSectors(calls), p1, p2 \in ProgramPages(calls) :
              /\ e1 < e2 /\ e1 < p1 /\ e2 < p2
              /\ calls[e1].addr = first
              /\ calls[e2].addr = second
              /\ calls[p1].addr = second - PageBufferSize
              /\ calls[p2].addr = second
        /\ \A p \in BytesOf(prevOp.addr, prevOp.data) : Programmed(calls, p)

\* the session of the two-byte write at the last byte of the first sector
C10_WriteAtSectorEnd ==
  /\ SplitWrite
  /\ prevOp.addr = SectorSize - 1
  /\ prevOp.size = 2
  /\ flash[SectorSize - 1] = prevOp.data[1]
  /\ flash[SectorSize] = prevOp.data[2]

\* the last call was a write that returned success and left a valid sector
WriteSucceeded ==
  /\ lastOp.op = "write"
  /\ lastOp.ret = ERROR_SUCCESS
  /\ fm.flash_state = FLASH_STATE_OPEN
  /\ fm.current_sector_valid

\* C18: after every successful write the block window
\* [current_write_block_addr, + current_write_block_size) lies inside the
\* current sector [current_sector_addr, + current_sector_size), also when the
\* write ended exactly on a block or sector boundary.
C18_WindowContainment ==
  WriteSucceeded =>
     /\ fm.current_write_block_addr >= fm.current_sector_addr
     /\ fm.current_write_block_addr + fm.current_write_block_size
          <= fm.current_sector_addr + fm.current_sector_size

Inside(addr, size, w, wsize) == addr >= w /\ addr + size <= w + wsize

\* two successful writes in a row, both with all their bytes inside the block
\* window that was current between them
SameWindow ==
  /\ lastOp.op = "write" /\ lastOp.ret = ERROR_SUCCESS
  /\ prevOp.op = "write" /\ prevOp.ret = ERROR_SUCCESS
  /\ lastOp.pre.flash_state = FLASH_STATE_OPEN
  /\ prevOp.size > 0 /\ lastOp.size > 0
  /\ Inside(prevOp.addr, prevOp.size, lastOp.pre.current_write_block_addr,
            lastOp.pre.current_write_block_size)
  /\ Inside(lastOp.addr, lastOp.size, lastOp.pre.current_write_block_addr,
            lastOp.pre.current_write_block_size)

\* the second write issued no erase and no program, and the bytes of both
\* writes are in the page buffer at their offsets (the later byte where both
\* wrote the same address)
Combined ==
  /\ EraseSectors(NewCalls) = {}
  /\ ProgramPages(NewCalls) = {}
  /\ fm.current_write_block_addr = lastOp.pre.current_write_block_addr
  /\ \A p \in BytesOf(lastOp.addr, lastOp.data) : Buffered(p)
  /\ \A p \in BytesOf(prevOp.addr, prevOp.data) :
        Buffered(p) \/ Inside(p[1], 1, lastOp.addr, lastOp.size)

\* C20: successive successful writes whose addresses stay inside the buffered
\* block window, in any order, issue no erase_sector and no program_page; their
\* bytes are held together in the page buffer at their offsets.
C20_WriteCombining == SameWindow => Combined

\* ------------------------------------------- properties of the orchestrator
\* caller c is back from a call that went through the handshake
Returned(c) == caller[c].pc = "idle" /\ caller[c].why = "handshake"

\* the algorithm loads and image programming done for command id
Work(id) ==
  {i \in DOMAIN plog :
     /\ plog[i].id = id
     /\ plog[i].op \in {"extract", "programing_hex", "programming_bin"}}

\* C11: a programmer_put_cmd that reads busy as true returns false at once:
\* nothing is sent to the worker, the caller does not wait for the handshake,
\* and busy, progress, the FlashManager and the backend are as they were.
C11_BusyRejection ==
  [][\A c \in Callers :
       (caller[c].pc = "idle" /\ busy /\ caller'[c] # caller[c]) =>
          /\ caller'[c].pc = "idle"
          /\ caller'[c].ret = FALSE
          /\ UNCHANGED <<busy, cmd_ret, progress, cmd_buf, sync_sig, task, plog,
                         verdict, fvars>>]_vars

\* a call was turned away while the worker is programming an earlier command
C11_RejectedWhileBusy ==
  \E c \in Callers :
     /\ caller[c].pc = "idle"
     /\ caller[c].why = "busy"
     /\ caller[c].ret = FALSE
     /\ busy
     /\ task.pc \in {"extract", "program", "clear"}

\* C12: whatever the interleaving of the calling tasks and the worker, at most
\* one command is queued or being handled: no command sits in the message
\* buffer while the worker validates or programs another one, and two calls
\* that overlap in time are never both accepted.
C12_SingleFlight ==
  /\ Len(cmd_buf) + (IF task.pc = "receive" THEN 0 ELSE 1) <= 1
  /\ \A c, d \in Callers :
        (c # d /\ caller[c].pc # "idle" /\ caller[d].pc # "idle") =>
           ~(verdict[caller[c].id] = "true" /\ verdict[caller[d].id] = "true")

Acceptable(cmd) ==
  /\ cmd.parses
  /\ cmd.algorithm = "string"
  /\ cmd.program = "string"
  /\ cmd.algo_exist
  /\ cmd.program_exist
  /\ cmd.bin => cmd.has_addr

\* C13: programmer_put_cmd returns true if and only if the command parses,
\* names an algorithm and an image as strings, both files exist and a ".bin"
\* algorithm comes with a flash address; otherwise it returns false and no
\* algorithm is loaded and no image programmed for that command.
C13_AcceptancePredicate ==
  \A c \in Callers :
     Returned(c) =>
        /\ caller[c].ret = Acceptable(caller[c].msg)
        /\ ~Acceptable(caller[c].msg) => Work(caller[c].id) = {}

\* C14: when the validation rejects a command, busy is false and the progress
\* is what it was when programmer_put_cmd was called.
C14_RejectionNoEffect ==
  \A c \in Callers :
     (Returned(c) /\ ~caller[c].ret /\ ~Acceptable(caller[c].msg)) =>
        /\ ~busy
        /\ progress = caller[c].progress0

\* C15: an image of a command with a ".bin" algorithm goes through
\* programming_bin at the flash address of the command, whatever the address,
\* 0 included; programing_hex is used for the other commands only.
C15_ImagePath ==
  \A i \in DOMAIN plog :
     plog[i].op \in {"programing_hex", "programming_bin"} =>
        IF plog[i].cmd.bin
        THEN plog[i].op = "programming_bin"
             /\ plog[i].flash_addr = plog[i].cmd.flash_addr
        ELSE plog[i].op = "programing_hex"

\* C16: under fair scheduling every accepted command ends with busy false and
\* the worker back at its wait for commands, and a valid command submitted
\* after that is accepted.
C16_CompletionLiveness ==
  /\ busy ~> (~busy /\ task.pc = "receive")
  /\ \A c \in Callers :
        (caller[c].pc = "send" /\ caller[c].follow /\ Acceptable(caller[c].msg))
           ~> (Returned(c) /\ caller[c].ret)

\* C17: a programmer_put_cmd that was not turned away as busy returns after
\* the worker has validated that caller's command, with the outcome of that
\* validation; when it returns true busy has been set for that command; and
\* busy is cleared after all the work of the command.
C17_Handshake ==
  /\ \A c \in Callers :
        Returned(c) =>
           /\ verdict[caller[c].id] # "none"
           /\ caller[c].ret = (verdict[caller[c].id] = "true")
           /\ caller[c].ret =>
                 \E i \in DOMAIN plog : plog[i].op = "busy" /\ plog[i].id = caller[c].id
  /\ \A i \in DOMAIN plog :
        plog[i].op = "clear" => \A j \in Work(plog[i].id) : j < i

====
